---- MODULE Spec2Model ----
(***************************************************************************)
(* Model of generador_datos_sinteticos.py: main() reads a seed table,      *)
(* writes it to the output file, then generates synthetic rows in chunks   *)
(* (sample, repair the 24h time budget, decode categories, label stress,   *)
(* assign identifiers) and appends every chunk to the output file.         *)
(*                                                                         *)
(* Numbers are fixed point.  Hours are integers in hundredths of an hour   *)
(* (Study = 750 is 7.5 h), GPA is in thousandths, the sampled Age and the  *)
(* sampled category code are in hundredths.  float64 arithmetic is taken   *)
(* as exact rational arithmetic; rounding is numpy's round-half-to-even.   *)
(* The multivariate normal draw (mu, sigma) is a nondeterministic choice   *)
(* of the sampled values.                                                  *)
(***************************************************************************)
EXTENDS Integers, Sequences, FiniteSets, TLC

VARIABLES pc, err, df_seed, encoders, out,
          TARGET_NEW_ROWS, CHUNK_SIZE,
          rows_generated, chunk_counter, current_id, current_chunk_size,
          datos_raw, df_chunk

vars == <<pc, err, df_seed, encoders, out, TARGET_NEW_ROWS, CHUNK_SIZE,
          rows_generated, chunk_counter, current_id, current_chunk_size,
          datos_raw, df_chunk>>

(* ------------------------------ bounds --------------------------------- *)
MaxTarget == 4
MaxChunk == 2
MaxSeedRows == 3
MaxSeedId == 2
MaxRawIdx == 15
MaxCatIdx == 4
FarCode == 100000

(* --------------------------- generic helpers --------------------------- *)
Min2(a, b) == IF a <= b THEN a ELSE b
Abs(x) == IF x < 0 THEN -x ELSE x
SeqToSet(s) == {s[i] : i \in DOMAIN s}

(* nearest integer to n/d (d > 0), ties to the even integer: np.round/rint *)
RoundHalfEven(n, d) ==
  LET q == n \div d
      r == n - q * d
  IN  IF 2 * r < d THEN q
      ELSE IF 2 * r > d THEN q + 1
      ELSE IF q % 2 = 0 THEN q ELSE q + 1

(* Series.clip(lower, upper) *)
ClipRange(x, lo, hi) == IF x < lo THEN lo ELSE IF x > hi THEN hi ELSE x

(* row with one column added or replaced: df[col] = val *)
SetCol(row, col, val) ==
  [c \in DOMAIN row \cup {col} |-> IF c = col THEN val ELSE row[c]]

(* row restricted to a list of columns: df[cols] *)
Project(row, cols) == [c \in SeqToSet(cols) |-> row[c]]

(* ----------------------------- the schema ------------------------------ *)
time_vars_independent ==
  <<"Study_Hours_Per_Day", "Extracurricular_Hours_Per_Day",
    "Sleep_Hours_Per_Day", "Social_Hours_Per_Day">>

all_time_vars == time_vars_independent \o <<"Physical_Activity_Hours_Per_Day">>

(* the column order of the seed files the model enumerates *)
FullColumns ==
  <<"Student_ID", "Study_Hours_Per_Day", "Extracurricular_Hours_Per_Day",
    "Sleep_Hours_Per_Day", "Social_Hours_Per_Day",
    "Physical_Activity_Hours_Per_Day", "GPA", "Age", "Gender", "Stress_Level">>

(* category strings in lexicographic order (the order np.unique sorts by) *)
Categories == <<"Female", "Male", "Other">>

Dtype(c) == IF c \in {"Gender", "Stress_Level"} THEN "object" ELSE "number"

columnas_ordenadas == df_seed.columns

cols_numericas(seed) ==
  SelectSeq(seed.columns, LAMBDA c : seed.dtype[c] = "number")

other_numerics(seed) ==
  SelectSeq(cols_numericas(seed),
            LAMBDA c : /\ c \notin SeqToSet(time_vars_independent)
                       /\ c # "Physical_Activity_Hours_Per_Day"
                       /\ c # "Student_ID")

cols_categoricas(seed) ==
  SelectSeq(seed.columns,
            LAMBDA c : seed.dtype[c] # "number" /\ c # "Stress_Level")

cols_a_modelar(seed) ==
  time_vars_independent \o other_numerics(seed) \o cols_categoricas(seed)

(* LabelEncoder.fit: classes_ is the sorted list of the distinct values *)
FitClasses(seed, col) ==
  SelectSeq(Categories,
            LAMBDA v : \E i \in DOMAIN seed.rows : seed.rows[i][col] = v)

FitEncoders(seed) ==
  [c \in SeqToSet(cols_categoricas(seed)) |-> FitClasses(seed, c)]

(* ------------------------ B. time logic (24 h) ------------------------- *)
Hours24 == 2400
SleepLimit == 600
StudyHighLimit == 800
StudyLowLimit == 600
GpaMax == 4000

(* Series.clip(lower=lo) *)
ClipLower_None(x, lo) == x
ClipLower(x, lo) == IF x < lo THEN lo ELSE x

(* df_chunk[time_vars_independent].sum(axis=1) *)
SumHours(row) ==
  row["Study_Hours_Per_Day"] + row["Extracurricular_Hours_Per_Day"]
    + row["Sleep_Hours_Per_Day"] + row["Social_Hours_Per_Day"]

(* value * (24 / Sum_Hours) as the exact fraction num/den *)
Rescale_NoScale(x, s) == [num |-> x, den |-> 1]
Rescale(x, s) == [num |-> x * Hours24, den |-> s]

(* Physical_Activity: 0.0 under mask_overflow, 24 - Sum_Hours under mask_ok *)
Residual_NoBranch(s, overflow) == Hours24 - s
Residual(s, overflow) == IF overflow THEN 0 ELSE Hours24 - s

(* Series.round(1) of the fraction v, in hundredths *)
Round1(v) == 10 * RoundHalfEven(v.num, v.den * 10)

TimeLogic(row) ==
  LET tv == SeqToSet(time_vars_independent)
      clipped == [c \in DOMAIN row |->
                    IF c \in tv THEN ClipLower(row[c], 0) ELSE row[c]]
      s == SumHours(clipped)
      mask_overflow == s > Hours24
      scaled(c) == IF mask_overflow THEN Rescale(clipped[c], s)
                   ELSE [num |-> clipped[c], den |-> 1]
      phys == [num |-> Residual(s, mask_overflow), den |-> 1]
  IN  [c \in DOMAIN row \cup {"Sum_Hours", "Physical_Activity_Hours_Per_Day"} |->
         IF c \in tv THEN Round1(scaled(c))
         ELSE IF c = "Physical_Activity_Hours_Per_Day" THEN Round1(phys)
         ELSE IF c = "Sum_Hours" THEN s
         ELSE row[c]]

(* ----------------------- other numeric clean-up ------------------------ *)
(* GPA.clip(0, 4.0).round(2), in thousandths *)
CleanGPA(x) == 10 * RoundHalfEven(ClipRange(x, 0, GpaMax), 10)

(* Age.round(0).astype(int) *)
CleanAge(x) == RoundHalfEven(x, 100)

(* --------------------- C. categories back to labels -------------------- *)
(* Series.round().astype(int) of a sampled code *)
RoundCode(x) == RoundHalfEven(x, 100)

MaxIdx_OffByOne(classes) == Len(classes)
MaxIdx(classes) == Len(classes) - 1

(* LabelEncoder.inverse_transform raises ValueError on an unseen code *)
CanDecode(classes, code) == code \in 0..(Len(classes) - 1)
InverseTransform(classes, code) == classes[code + 1]

ClampedCode(classes, x) == ClipRange(RoundCode(x), 0, MaxIdx(classes))

(* ----------------------- D. stress business rule ----------------------- *)
(* np.select: the choice of the first true condition, else the default *)
np_select(condlist, choicelist, default) ==
  IF \E i \in DOMAIN condlist : condlist[i]
  THEN choicelist[CHOOSE i \in DOMAIN condlist :
                    condlist[i] /\ \A j \in 1..(i - 1) : ~condlist[j]]
  ELSE default

StressLevel_SleepLe(sleep, study) ==
  np_select(<<sleep <= SleepLimit \/ study > StudyHighLimit,
              sleep >= SleepLimit /\ study < StudyLowLimit>>,
            <<"High", "Low">>, "Moderate")
StressLevel(sleep, study) ==
  np_select(<<sleep < SleepLimit \/ study > StudyHighLimit,
              sleep >= SleepLimit /\ study < StudyLowLimit>>,
            <<"High", "Low">>, "Moderate")

(* ------------------- the repair of one sampled row --------------------- *)
(* the exception lines 79-122 raise on this chunk, or "none" *)
RepairError(seed, enc, rows) ==
  LET modelled == SeqToSet(cols_a_modelar(seed))
  IN  IF "GPA" \notin modelled \/ "Age" \notin modelled THEN "KeyError"
      ELSE IF \E i \in DOMAIN rows : \E c \in DOMAIN enc :
                ~CanDecode(enc[c], ClampedCode(enc[c], rows[i][c]))
           THEN "ValueError"
      ELSE "none"

RepairRow(enc, raw) ==
  LET t == TimeLogic(raw)
      n == [c \in DOMAIN t |->
              IF c = "GPA" THEN CleanGPA(t[c])
              ELSE IF c = "Age" THEN CleanAge(t[c])
              ELSE IF c \in DOMAIN enc
                   THEN InverseTransform(enc[c], ClampedCode(enc[c], t[c]))
              ELSE t[c]]
  IN  SetCol(n, "Stress_Level",
             StressLevel(n["Sleep_Hours_Per_Day"], n["Study_Hours_Per_Day"]))

(* ------------------------- seeds and raw draws ------------------------- *)
RawStep == 85

SeedRowFull(id, g) ==
  [c \in SeqToSet(FullColumns) |->
     CASE c = "Student_ID" -> id
       [] c = "Study_Hours_Per_Day" -> 400
       [] c = "Extracurricular_Hours_Per_Day" -> 300
       [] c = "Sleep_Hours_Per_Day" -> 800
       [] c = "Social_Hours_Per_Day" -> 200
       [] c = "Physical_Activity_Hours_Per_Day" -> 700
       [] c = "GPA" -> 3120
       [] c = "Age" -> 20
       [] c = "Gender" -> g
       [] OTHER -> "Low"]

(* a seed table: the full schema, or the full schema without one column *)
MakeSeed(ids, genders, missing) ==
  LET cols == SelectSeq(FullColumns, LAMBDA c : c # missing)
  IN  [columns |-> cols,
       dtype |-> [c \in SeqToSet(cols) |-> Dtype(c)],
       rows |-> [i \in 1..Len(ids) |->
                   Project(SeedRowFull(ids[i], genders[i]), cols)]]

(* one or two seed rows with distinct identifiers, in any order *)
IdSeqs ==
  {s \in UNION {[1..n -> 1..MaxSeedId] : n \in {1, 2}} :
     \A i, j \in DOMAIN s : i # j => s[i] # s[j]}

GenderOfId(id) == Categories[((id - 1) % Len(Categories)) + 1]

MissingOptions == {"none"} \cup SeqToSet(FullColumns)

MainSeeds ==
  {MakeSeed(ids, [i \in DOMAIN ids |-> GenderOfId(ids[i])], m) :
     ids \in IdSeqs, m \in MissingOptions}

RawRow(study, extra, sleep, social, gpa, age, gender) ==
  [c \in SeqToSet(time_vars_independent) \cup {"GPA", "Age", "Gender"} |->
     CASE c = "Study_Hours_Per_Day" -> study
       [] c = "Extracurricular_Hours_Per_Day" -> extra
       [] c = "Sleep_Hours_Per_Day" -> sleep
       [] c = "Social_Hours_Per_Day" -> social
       [] c = "GPA" -> gpa
       [] c = "Age" -> age
       [] OTHER -> gender]

(* the draws of the chunk loop: an overflow row, and a row with slack, a  *)
(* negative draw and values that sit on rounding ties                    *)
LoopRawRows ==
  {RawRow(1000, 1000, 600, 600, 4500, 1950, 260),
   RawRow(-125, 905, 555, 245, 3125, 2149, -70)}

BoundaryRaw == {596, 600, 800, 804}
RawValues == {RawStep * k : k \in -1..MaxRawIdx} \cup BoundaryRaw

CatRawValues ==
  {50 * k : k \in (-MaxCatIdx)..(2 * MaxCatIdx)} \cup {-FarCode, FarCode}
GpaRawValues == {-500, 3125, 3135, 4000, 4500}
AgeRawValues == {1950, 2050, 2149}

CatSeeds ==
  UNION {{MakeSeed([i \in 1..n |-> i], g, "none") :
            g \in [1..n -> SeqToSet(Categories)]} :
         n \in 1..MaxSeedRows}

(* ------------------------------ the file ------------------------------- *)
NoFile == [exists |-> FALSE, header |-> <<>>, rows |-> <<>>]

(* to_csv(mode='a'): the rows follow what the file already holds *)
AppendRows_Overwrite(old, new) == new
AppendRows(old, new) == old \o new

(* ------------------------------ the loop ------------------------------- *)
SeedIds(seed) == {seed.rows[i]["Student_ID"] : i \in DOMAIN seed.rows}
SetMax(S) == CHOOSE m \in S : \A x \in S : x <= m

(* df_seed['Student_ID'].max() + 1 *)
FirstId(seed) == SetMax(SeedIds(seed)) + 1

(* min(CHUNK_SIZE, TARGET_NEW_ROWS - rows_generated) *)
ChunkSizeFor_NoMin(chunk, target, rows) == chunk
ChunkSizeFor(chunk, target, rows) == Min2(chunk, target - rows)

(* current_id += current_chunk_size *)
NextId_NoAdvance(id, size) == id
NextId(id, size) == id + size

(* rows_generated += current_chunk_size *)
RowsAfter_PlusOne(rows, size) == rows + 1
RowsAfter(rows, size) == rows + size

(* ------------------------------- actions ------------------------------- *)
Init ==
  /\ pc = "load"
  /\ err = "none"
  /\ df_seed \in MainSeeds
  /\ TARGET_NEW_ROWS \in 0..MaxTarget
  /\ CHUNK_SIZE \in 1..MaxChunk
  /\ encoders = <<>>
  /\ out = NoFile
  /\ rows_generated = 0
  /\ chunk_counter = 0
  /\ current_id = 0
  /\ current_chunk_size = 0
  /\ datos_raw = <<>>
  /\ df_chunk = <<>>

(* lines 18-56: read the seed, classify the columns, fit the encoders and *)
(* the joint model; df_proc[cols_a_modelar] raises KeyError when one of   *)
(* the four time columns is not in the seed                               *)
Load ==
  /\ pc = "load"
  /\ encoders' = FitEncoders(df_seed)
  /\ IF SeqToSet(cols_a_modelar(df_seed)) \subseteq SeqToSet(df_seed.columns)
     THEN pc' = "write_seed" /\ err' = err
     ELSE pc' = "failed" /\ err' = "KeyError"
  /\ UNCHANGED <<df_seed, out, TARGET_NEW_ROWS, CHUNK_SIZE, rows_generated,
                 chunk_counter, current_id, current_chunk_size, datos_raw,
                 df_chunk>>

(* line 61: the seed table, with header, replaces the output file *)
WriteSeed ==
  /\ pc = "write_seed"
  /\ out' = [exists |-> TRUE, header |-> columnas_ordenadas,
             rows |-> df_seed.rows]
  /\ pc' = "init_loop"
  /\ UNCHANGED <<err, df_seed, encoders, TARGET_NEW_ROWS, CHUNK_SIZE,
                 rows_generated, chunk_counter, current_id,
                 current_chunk_size, datos_raw, df_chunk>>

(* line 61 raising OSError: the file may not exist, or hold the header and *)
(* a proper prefix of the seed rows                                        *)
WriteSeedFail ==
  /\ pc = "write_seed"
  /\ \/ out' = NoFile
     \/ \E j \in 0..(Len(df_seed.rows) - 1) :
          out' = [exists |-> TRUE, header |-> columnas_ordenadas,
                  rows |-> SubSeq(df_seed.rows, 1, j)]
  /\ pc' = "failed"
  /\ err' = "OSError"
  /\ UNCHANGED <<df_seed, encoders, TARGET_NEW_ROWS, CHUNK_SIZE,
                 rows_generated, chunk_counter, current_id,
                 current_chunk_size, datos_raw, df_chunk>>

(* lines 66-69: df_seed['Student_ID'] raises KeyError without the column *)
InitLoop ==
  /\ pc = "init_loop"
  /\ rows_generated' = 0
  /\ chunk_counter' = 0
  /\ IF "Student_ID" \in SeqToSet(df_seed.columns)
     THEN /\ current_id' = FirstId(df_seed)
          /\ pc' = "while"
          /\ err' = err
     ELSE /\ current_id' = current_id
          /\ pc' = "failed"
          /\ err' = "KeyError"
  /\ UNCHANGED <<df_seed, encoders, out, TARGET_NEW_ROWS, CHUNK_SIZE,
                 current_chunk_size, datos_raw, df_chunk>>

(* lines 71-73 and, on exit, 147-153 *)
WhileTest ==
  /\ pc = "while"
  /\ IF rows_generated < TARGET_NEW_ROWS
     THEN /\ current_chunk_size' =
               ChunkSizeFor(CHUNK_SIZE, TARGET_NEW_ROWS, rows_generated)
          /\ pc' = "sample"
     ELSE /\ current_chunk_size' = current_chunk_size
          /\ pc' = "done"
  /\ UNCHANGED <<err, df_seed, encoders, out, TARGET_NEW_ROWS, CHUNK_SIZE,
                 rows_generated, chunk_counter, current_id, datos_raw,
                 df_chunk>>

(* lines 76-77: one draw per row over the modelled columns *)
Sample ==
  /\ pc = "sample"
  /\ \E raws \in [1..current_chunk_size -> LoopRawRows] :
       datos_raw' = [i \in 1..current_chunk_size |->
                       Project(raws[i], cols_a_modelar(df_seed))]
  /\ df_chunk' = datos_raw'
  /\ pc' = "repair"
  /\ UNCHANGED <<err, df_seed, encoders, out, TARGET_NEW_ROWS, CHUNK_SIZE,
                 rows_generated, chunk_counter, current_id,
                 current_chunk_size>>

(* lines 79-122: time logic, numeric clean-up, categories, stress rule *)
Repair ==
  /\ pc = "repair"
  /\ LET e == RepairError(df_seed, encoders, df_chunk)
     IN  IF e = "none"
         THEN /\ df_chunk' = [i \in DOMAIN df_chunk |->
                                RepairRow(encoders, df_chunk[i])]
              /\ pc' = "assign"
              /\ err' = err
         ELSE /\ df_chunk' = df_chunk
              /\ pc' = "failed"
              /\ err' = e
  /\ UNCHANGED <<df_seed, encoders, out, TARGET_NEW_ROWS, CHUNK_SIZE,
                 rows_generated, chunk_counter, current_id,
                 current_chunk_size, datos_raw>>

(* lines 125-129: identifiers, counter, seed column order *)
AssignIds ==
  /\ pc = "assign"
  /\ df_chunk' = [i \in DOMAIN df_chunk |->
                    Project(SetCol(df_chunk[i], "Student_ID",
                                   current_id + i - 1),
                            columnas_ordenadas)]
  /\ current_id' = NextId(current_id, current_chunk_size)
  /\ pc' = "append"
  /\ UNCHANGED <<err, df_seed, encoders, out, TARGET_NEW_ROWS, CHUNK_SIZE,
                 rows_generated, chunk_counter, current_chunk_size,
                 datos_raw>>

(* line 132: the chunk is appended without header *)
AppendChunk ==
  /\ pc = "append"
  /\ out' = [out EXCEPT !.rows = AppendRows(out.rows, df_chunk)]
  /\ pc' = "update"
  /\ UNCHANGED <<err, df_seed, encoders, TARGET_NEW_ROWS, CHUNK_SIZE,
                 rows_generated, chunk_counter, current_id,
                 current_chunk_size, datos_raw, df_chunk>>

(* line 132 raising OSError: to_csv streams the rows to the file, so the *)
(* rows written before the error, a proper prefix of the chunk, stay    *)
AppendChunkFail ==
  /\ pc = "append"
  /\ \E j \in 0..(Len(df_chunk) - 1) :
       out' = [out EXCEPT !.rows = AppendRows(out.rows, SubSeq(df_chunk, 1, j))]
  /\ pc' = "failed"
  /\ err' = "SinkError"
  /\ UNCHANGED <<df_seed, encoders, TARGET_NEW_ROWS, CHUNK_SIZE,
                 rows_generated, chunk_counter, current_id,
                 current_chunk_size, datos_raw, df_chunk>>

(* lines 135-145: progress state, del df_chunk *)
Update ==
  /\ pc = "update"
  /\ rows_generated' = RowsAfter(rows_generated, current_chunk_size)
  /\ chunk_counter' = chunk_counter + 1
  /\ df_chunk' = <<>>
  /\ pc' = "while"
  /\ UNCHANGED <<err, df_seed, encoders, out, TARGET_NEW_ROWS, CHUNK_SIZE,
                 current_id, current_chunk_size, datos_raw>>

Next ==
  \/ Load
  \/ WriteSeed
  \/ WriteSeedFail
  \/ InitLoop
  \/ WhileTest
  \/ Sample
  \/ Repair
  \/ AssignIds
  \/ AppendChunk
  \/ AppendChunkFail
  \/ Update

Spec == Init /\ [][Next]_vars

(* the interpreter runs main() to its end or to an uncaught exception *)
FairSpec == Spec /\ WF_vars(Next)

(* ---------------- the repair step on one-row chunks -------------------- *)
(* the state main() is in at line 79 of its first iteration, for a seed    *)
(* that loaded and was written, a target of one row and the draw raw       *)
AtRepair(seed, raw) ==
  /\ pc = "repair"
  /\ err = "none"
  /\ df_seed = seed
  /\ TARGET_NEW_ROWS = 1
  /\ CHUNK_SIZE = 1
  /\ encoders = FitEncoders(seed)
  /\ out = [exists |-> TRUE, header |-> seed.columns, rows |-> seed.rows]
  /\ rows_generated = 0
  /\ chunk_counter = 0
  /\ current_id = FirstId(seed)
  /\ current_chunk_size = 1
  /\ datos_raw = <<Project(raw, cols_a_modelar(seed))>>
  /\ df_chunk = datos_raw

(* every combination of the four sampled hour values *)
TimeInit ==
  \E study, extra, sleep, social \in RawValues :
    AtRepair(MakeSeed(<<1>>, <<"Female">>, "none"),
             RawRow(study, extra, sleep, social, 3125, 2050, 40))

TimeNext == Repair

TimeSpec == TimeInit /\ [][TimeNext]_vars

(* every seed category list with every sampled code, GPA and Age *)
CatInit ==
  \E seed \in CatSeeds, code \in CatRawValues,
     gpa \in GpaRawValues, age \in AgeRawValues :
    AtRepair(seed, RawRow(400, 300, 800, 200, gpa, age, code))

CatNext == Repair

CatSpec == CatInit /\ [][CatNext]_vars

(* ------------------------------ properties ----------------------------- *)
NSeed == Len(df_seed.rows)
LoopPcs == {"while", "sample", "repair", "assign", "append", "update", "done"}
Sum4(row) ==
  row["Study_Hours_Per_Day"] + row["Extracurricular_Hours_Per_Day"]
    + row["Sleep_Hours_Per_Day"] + row["Social_Hours_Per_Day"]
Sum5(row) == Sum4(row) + row["Physical_Activity_Hours_Per_Day"]
NonNeg(x) == IF x < 0 THEN 0 ELSE x
ClippedSum(raw) ==
  NonNeg(raw["Study_Hours_Per_Day"]) + NonNeg(raw["Extracurricular_Hours_Per_Day"])
    + NonNeg(raw["Sleep_Hours_Per_Day"]) + NonNeg(raw["Social_Hours_Per_Day"])

(* C1: the loop ends, and when main() leaves it normally rows_generated is *)
(* exactly TARGET_NEW_ROWS: the output holds that many new rows, a target  *)
(* of 0 produces no batch, and a target that is not a multiple of the      *)
(* chunk size ends on a batch of TARGET_NEW_ROWS mod CHUNK_SIZE rows.      *)
C1_RowCountExact ==
  /\ <>(pc \in {"done", "failed"})
  /\ [](pc = "done" =>
          /\ rows_generated = TARGET_NEW_ROWS
          /\ Len(out.rows) = NSeed + TARGET_NEW_ROWS
          /\ (TARGET_NEW_ROWS = 0 => chunk_counter = 0)
          /\ (TARGET_NEW_ROWS % CHUNK_SIZE # 0 =>
                current_chunk_size = TARGET_NEW_ROWS % CHUNK_SIZE))

C1_Witness ==
  /\ pc = "done"
  /\ TARGET_NEW_ROWS % CHUNK_SIZE # 0
  /\ chunk_counter >= 2
  /\ rows_generated = TARGET_NEW_ROWS

(* C2: the identifiers of the generated rows, in output order, are         *)
(* max(seed ids)+1, +2, ...: the i-th generated row holds max+i, none is a *)
(* seed identifier, and a finished run holds exactly TARGET_NEW_ROWS.      *)
C2_ContiguousIds ==
  /\ \A i \in DOMAIN out.rows :
       i > NSeed =>
         /\ out.rows[i]["Student_ID"] = SetMax(SeedIds(df_seed)) + (i - NSeed)
         /\ out.rows[i]["Student_ID"] \notin SeedIds(df_seed)
  /\ (pc = "done" => Len(out.rows) - NSeed = TARGET_NEW_ROWS)

C2_Witness ==
  /\ pc = "done"
  /\ chunk_counter >= 2
  /\ Len(out.rows) >= NSeed + 3
  /\ NSeed = 2
  /\ df_seed.rows[1]["Student_ID"] > df_seed.rows[2]["Student_ID"]
  /\ out.rows[NSeed + 3]["Student_ID"] = df_seed.rows[1]["Student_ID"] + 3

(* C3: after the repair the five stored time values of every row sum to    *)
(* 24 h within 0.5 h.                                                      *)
C3_TimeBudget ==
  pc = "assign" =>
    \A i \in DOMAIN df_chunk : Abs(Sum5(df_chunk[i]) - 2400) <= 50

C3_Witness ==
  /\ pc = "assign"
  /\ datos_raw[1]["Study_Hours_Per_Day"] < 0
  /\ ClippedSum(datos_raw[1]) < 2400
  /\ Sum5(df_chunk[1]) # 2400

(* C4: after the repair the four independent time values and the residual  *)
(* Physical_Activity_Hours_Per_Day of every row are >= 0.                  *)
C4_NonNegative ==
  pc = "assign" =>
    \A i \in DOMAIN df_chunk :
      \A c \in SeqToSet(all_time_vars) : df_chunk[i][c] >= 0

C4_Witness ==
  /\ pc = "assign"
  /\ datos_raw[1]["Sleep_Hours_Per_Day"] < 0
  /\ ClippedSum(datos_raw[1]) > 2400
  /\ df_chunk[1]["Sleep_Hours_Per_Day"] = 0
  /\ df_chunk[1]["Physical_Activity_Hours_Per_Day"] = 0

(* C5: the stored Stress_Level of every row is the rule applied to the     *)
(* row's final Sleep and Study: High if Sleep < 6 or Study > 8, else Low   *)
(* if Sleep >= 6 and Study < 6, else Moderate.                             *)
C5_StressFromFinal ==
  pc = "assign" =>
    \A i \in DOMAIN df_chunk :
      LET sleep == df_chunk[i]["Sleep_Hours_Per_Day"]
          study == df_chunk[i]["Study_Hours_Per_Day"]
      IN  /\ df_chunk[i]["Stress_Level"] \in {"High", "Low", "Moderate"}
          /\ df_chunk[i]["Stress_Level"] =
               IF sleep < 600 \/ study > 800 THEN "High"
               ELSE IF sleep >= 600 /\ study < 600 THEN "Low"
               ELSE "Moderate"

(* a draw the raw values would label High, stored as Low *)
C5_Witness ==
  /\ pc = "assign"
  /\ datos_raw[1]["Sleep_Hours_Per_Day"] = 596
  /\ datos_raw[1]["Study_Hours_Per_Day"] < 600
  /\ df_chunk[1]["Sleep_Hours_Per_Day"] = 600
  /\ df_chunk[1]["Stress_Level"] = "Low"

(* C6: the repair never fails on a sampled category code, and the stored   *)
(* value of every categorical column is one of the seed's values of that   *)
(* column.                                                                 *)
C6_CategoryInSeed ==
  /\ pc # "failed"
  /\ pc = "assign" =>
       \A i \in DOMAIN df_chunk : \A c \in SeqToSet(cols_categoricas(df_seed)) :
         \E j \in DOMAIN df_seed.rows : df_chunk[i][c] = df_seed.rows[j][c]

C6_Witness ==
  /\ pc = "assign"
  /\ datos_raw[1]["Gender"] = FarCode
  /\ Len(encoders["Gender"]) = 2
  /\ df_chunk[1]["Gender"] = "Other"

(* C7: a seed without Student_ID, without one of the four independent     *)
(* time columns or without Stress_Level never gets anything written to    *)
(* the output file.                                                       *)
C7_NoOutputOnSchemaError ==
  (\E c \in {"Student_ID", "Stress_Level"} \cup SeqToSet(time_vars_independent) :
     c \notin SeqToSet(df_seed.columns))
    => out = NoFile

(* C8 as stated: after a failed append of batch k the output holds exactly *)
(* the seed rows and the complete batches 1..k-1.                          *)
C8_ExactPrefixOnSinkError ==
  (pc = "failed" /\ err = "SinkError") =>
    /\ SubSeq(out.rows, 1, NSeed) = df_seed.rows
    /\ Len(out.rows) = NSeed + rows_generated

(* C8 amended: the output is the header and the seed rows followed by the  *)
(* batches in generation order; a failed append of batch k halts the run   *)
(* (no later step, no retry) and leaves the seed rows, the complete        *)
(* batches 1..k-1 and at most a proper prefix of batch k; no step removes  *)
(* or rewrites what the file holds.                                        *)
C8_State ==
  (pc \in LoopPcs \/ (pc = "failed" /\ err = "SinkError")) =>
    /\ out.exists
    /\ out.header = df_seed.columns
    /\ SubSeq(out.rows, 1, NSeed) = df_seed.rows
    /\ pc \in LoopPcs \ {"update"} => Len(out.rows) = NSeed + rows_generated
    /\ pc = "update" => Len(out.rows) = NSeed + rows_generated + current_chunk_size
    /\ pc = "failed" =>
         /\ Len(out.rows) >= NSeed + rows_generated
         /\ Len(out.rows) < NSeed + rows_generated + current_chunk_size

C8_Step ==
  /\ pc # "failed"
  /\ (pc = "append" /\ pc' = "update") => out'.rows = out.rows \o df_chunk
  /\ (pc = "append" /\ pc' = "failed") =>
       /\ err' = "SinkError"
       /\ \E j \in 0..(Len(df_chunk) - 1) :
            out'.rows = out.rows \o SubSeq(df_chunk, 1, j)
  /\ pc \notin {"append", "write_seed"} => out' = out

C8_PrefixKeptOnSinkError == []C8_State /\ [][C8_Step]_vars

C8_Witness ==
  /\ pc = "failed"
  /\ err = "SinkError"
  /\ chunk_counter >= 1
  /\ Len(out.rows) = NSeed + rows_generated + 1
  /\ out.rows[Len(out.rows)] = df_chunk[1]

(* C9 as stated: a row whose clipped independent values sum to more than   *)
(* 24 h is emitted with the four values summing to exactly 24 h and        *)
(* Physical_Activity_Hours_Per_Day = 0.                                    *)
C9_OverflowExact ==
  pc = "assign" =>
    \A i \in DOMAIN df_chunk :
      ClippedSum(datos_raw[i]) > 2400 =>
        /\ Sum4(df_chunk[i]) = 2400
        /\ df_chunk[i]["Physical_Activity_Hours_Per_Day"] = 0

(* C9 amended: such a row is emitted with Physical_Activity_Hours_Per_Day  *)
(* = 0 and four values, rescaled by 24/sum and then rounded to one         *)
(* decimal, that sum to 24 h within 0.2 h.                                 *)
C9_OverflowRounded ==
  pc = "assign" =>
    \A i \in DOMAIN df_chunk :
      ClippedSum(datos_raw[i]) > 2400 =>
        /\ Abs(Sum4(df_chunk[i]) - 2400) <= 20
        /\ df_chunk[i]["Physical_Activity_Hours_Per_Day"] = 0

C9_Witness ==
  /\ pc = "assign"
  /\ ClippedSum(datos_raw[1]) > 2400
  /\ Sum4(df_chunk[1]) # 2400
  /\ df_chunk[1]["Physical_Activity_Hours_Per_Day"] = 0

(* C10: 0 <= rows_generated <= TARGET_NEW_ROWS always; inside an iteration *)
(* the batch size is min(CHUNK_SIZE, TARGET_NEW_ROWS - rows_generated), in *)
(* 1..CHUNK_SIZE, the chunk in memory has at most that many rows, and the  *)
(* iteration adds exactly the batch size to rows_generated.                *)
C10_State ==
  /\ 0 <= rows_generated
  /\ rows_generated <= TARGET_NEW_ROWS
  /\ Len(df_chunk) <= CHUNK_SIZE
  /\ pc \in {"sample", "repair", "assign", "append", "update"} =>
       /\ current_chunk_size =
            (IF CHUNK_SIZE <= TARGET_NEW_ROWS - rows_generated
             THEN CHUNK_SIZE ELSE TARGET_NEW_ROWS - rows_generated)
       /\ current_chunk_size \in 1..CHUNK_SIZE
       /\ rows_generated + current_chunk_size <= TARGET_NEW_ROWS
  /\ pc \in {"repair", "assign", "append", "update"} =>
       Len(df_chunk) = current_chunk_size

C10_Step ==
  /\ pc = "update" => rows_generated' = rows_generated + current_chunk_size
  /\ pc # "update" => rows_generated' = rows_generated

C10_NoOvershoot == []C10_State /\ [][C10_Step]_vars

C10_Witness ==
  /\ pc = "while"
  /\ chunk_counter >= 2
  /\ rows_generated = TARGET_NEW_ROWS
  /\ current_chunk_size < CHUNK_SIZE

====
